---- MODULE Spec2Model ----
(***************************************************************************)
(* Model of api/index.py: a webhook-driven Telegram file-store bot.        *)
(*                                                                         *)
(* Every inbound POST is one invocation (do_POST -> process_update ->      *)
(* start | admin_upload).  Invocations run concurrently and share only the *)
(* MongoDB collection.  Each action below is one stretch of handler code   *)
(* between two points where other invocations can interleave (the awaited  *)
(* registry and platform calls).                                           *)
(*                                                                         *)
(* Faults that are drawn nondeterministically: json.loads, the build and   *)
(* initialize of the Application, Update.de_json, get_chat_member,         *)
(* find_one, insert_one and the three send-media calls.  reply_text and    *)
(* app.shutdown() are taken to succeed.                                    *)
(***************************************************************************)
EXTENDS Integers, Sequences, FiniteSets, TLC

\* ------------------------------------------------------------------ bounds

\* number of webhook invocations (each runs once, concurrently with the others)
MaxInvocations == 3
\* generate_short_code(length=6), cut down to a code space that can fill up
CodeLength == 1
\* size of the prefix of string.ascii_letters + string.digits codes are drawn from
AlphabetSize == 2

\* ------------------------------------------------------------------ configuration

ADMIN_ID == 42

BOT_USERNAME == "filebot"

\* the values os.getenv("CHANNEL_ID") can give: unset/empty, or a channel
Channels == {"", "@chan"}

Procs == 1 .. MaxInvocations

\* senders of inbound messages: the administrator and somebody else
Users == {ADMIN_ID, ADMIN_ID + 1}

\* every ChatMember.status of the platform
ChatMemberStatus ==
    {"creator", "administrator", "member", "restricted", "left", "kicked"}

\* the ChatMember.status values get_chat_member answers with here
Statuses == {"member", "left", "kicked"}

\* ------------------------------------------------------------------ short codes

AsciiLettersDigits == <<"a", "b", "c", "d", "e">>

Chars == {AsciiLettersDigits[i] : i \in 1 .. AlphabetSize}

\* all strings of the given length over Chars, as sequences of characters
RECURSIVE StringsOver(_)
StringsOver(length) ==
    IF length = 0 THEN {<<>>}
    ELSE {<<c>> \o s : c \in Chars, s \in StringsOver(length - 1)}

\* the values generate_short_code() can return
generate_short_code == StringsOver(CodeLength)

\* context.args of a /start command: none, or one argument
ArgLists == {<<>>} \cup {<<c>> : c \in generate_short_code}

\* ------------------------------------------------------------------ messages

NoFile == ""

\* message.photo: the size-ordered PhotoSize sequence (empty when no photo)
PhotoLists == {<<>>, <<"photo_small", "photo_large">>}

MediaMessages ==
    {[shape |-> "update", user |-> u, command |-> FALSE, args |-> <<>>,
      document |-> d, video |-> v, photo |-> ph] :
        u \in Users, d \in {NoFile, "doc_1"}, v \in {NoFile, "vid_1"},
        ph \in PhotoLists}

StartCommands ==
    {[shape |-> "update", user |-> u, command |-> TRUE, args |-> a,
      document |-> NoFile, video |-> NoFile, photo |-> <<>>] :
        u \in Users, a \in ArgLists}

NoUpdate(shape) ==
    [shape |-> shape, user |-> 0, command |-> FALSE, args |-> <<>>,
     document |-> NoFile, video |-> NoFile, photo |-> <<>>]

\* POST bodies: not JSON at all, JSON that is no Update, or an Update
Bodies == {NoUpdate("malformed"), NoUpdate("json")} \cup MediaMessages \cup StartCommands

\* ------------------------------------------------------------------ state

VARIABLES
    CHANNEL_ID,   \* os.getenv("CHANNEL_ID"), fixed for the deployment
    collection,   \* the "files" collection, in natural (insertion) order
    pc,           \* position of each invocation
    update,       \* per invocation, the Update decoded from the POST body
    short_code,   \* admin_upload's / start's local short_code
    upload,       \* admin_upload's locals file_id and file_type
    file_doc,     \* start's local file_doc: <<>> for None, <<doc>> otherwise
    calls,        \* per invocation, the platform and registry calls made, in order
    error,        \* per invocation, how far an exception travelled
    response,     \* per invocation, the HTTP response written by do_POST
    denied_view   \* history: what the registry held for the requested code
                  \* when the invocation was denied ("none" if it was not)

vars == <<CHANNEL_ID, collection, pc, update, short_code, upload,
          file_doc, calls, error, response, denied_view>>

NoResponse == [status |-> 0, text |-> ""]

NoUpload == [file_id |-> NoFile, file_type |-> "document"]

\* one entry of the call log; fields a call does not use are left empty
Call(op, user, code, file, text, link, ok) ==
    [op |-> op, user |-> user, code |-> code, file |-> file, text |-> text,
     link |-> link, ok |-> ok]

\* update.message.reply_text(text, ...) to the sender; link is the URL it carries
ReplyText(user, text, link) == Call("reply_text", user, <<>>, NoFile, text, link, TRUE)

Init ==
    /\ CHANNEL_ID \in Channels
    /\ collection = <<>>
    /\ pc = [p \in Procs |-> "idle"]
    /\ update = [p \in Procs |-> NoUpdate("none")]
    /\ short_code = [p \in Procs |-> <<>>]
    /\ upload = [p \in Procs |-> NoUpload]
    /\ file_doc = [p \in Procs |-> <<>>]
    /\ calls = [p \in Procs |-> <<>>]
    /\ error = [p \in Procs |-> {}]
    /\ response = [p \in Procs |-> NoResponse]
    /\ denied_view = [p \in Procs |-> "none"]

\* ------------------------------------------------------------------ helpers

\* f"https://t.me/{bot_username}?start={start_param}"
DeepLink(start_param) == <<"https://t.me/", BOT_USERNAME, "?start=">> \o start_param

\* the gate applied whether or not a channel is configured
GateAlways == TRUE

\* "if CHANNEL_ID:" -- unset (None) and "" both skip the gate
Gated == CHANNEL_ID # ""

\* the sender is never compared with ADMIN_ID
AnyoneIsAdmin(user) == TRUE

\* "user_id != ADMIN_ID" in admin_upload, filters.User(user_id=ADMIN_ID) in the
\* dispatcher
IsAdmin(user) == user = ADMIN_ID

\* "if args is None:" -- context.args of a bare /start is [], never None
ArgsIsNone(args) == FALSE

\* "if not args:"
NoArgs(args) == args = <<>>

\* what bot.get_chat_member can do: report the user's current status in the
\* channel (the platform's to say), or raise
GetChatMember(user) == Statuses \cup {"raise"}

\* is_user_subscribed testing for "left" alone: a banned user passes
is_user_subscribed_left_only(outcome) ==
    IF outcome = "raise" THEN FALSE
    ELSE IF outcome = "left" THEN FALSE
    ELSE TRUE

\* is_user_subscribed with the except branch returning True
is_user_subscribed_fail_open(outcome) ==
    IF outcome = "raise" THEN TRUE
    ELSE IF outcome \in {"left", "kicked"} THEN FALSE
    ELSE TRUE

\* is_user_subscribed, given the outcome of the platform call
is_user_subscribed(outcome) ==
    IF outcome = "raise" THEN FALSE
    ELSE IF outcome \in {"left", "kicked"} THEN FALSE
    ELSE TRUE

\* find_one with an empty filter: any document of the collection
FindOneAnyCode(code) ==
    IF collection = <<>> THEN {<<>>}
    ELSE {<<collection[i]>> : i \in DOMAIN collection}

\* what collection.find_one({"code": code}) can return: None (<<>>) when no
\* document matches, otherwise one matching document; which one of several
\* matches comes first is the store's choice
FindOne(code) ==
    LET hits == {i \in DOMAIN collection : collection[i].code = code}
    IN  IF hits = {} THEN {<<>>} ELSE {<<collection[i]>> : i \in hits}

\* the ways an awaited find_one can end: it returns, or the driver raises
FindOneOutcomes(code) ==
    {[raised |-> FALSE, doc |-> d] : d \in FindOne(code)}
        \cup {[raised |-> TRUE, doc |-> <<>>]}

\* admin_media_filter: filters.User(ADMIN_ID) & (Document.ALL | VIDEO | PHOTO)
admin_media_filter(msg) ==
    /\ IsAdmin(msg.user)
    /\ (msg.document # NoFile \/ msg.video # NoFile \/ msg.photo # <<>>)

\* the handler Application.process_update picks: the first that matches
Route(msg) ==
    IF msg.command THEN "start"
    ELSE IF admin_media_filter(msg) THEN "admin_upload"
    ELSE "done"

\* the chain taking the first entry of message.photo, the smallest size
ExtractMediaSmallestPhoto(msg) ==
    IF msg.document # NoFile THEN [file_id |-> msg.document, file_type |-> "document"]
    ELSE IF msg.video # NoFile THEN [file_id |-> msg.video, file_type |-> "video"]
    ELSE IF msg.photo # <<>>
         THEN [file_id |-> msg.photo[1], file_type |-> "photo"]
    ELSE NoUpload

\* admin_upload's "Determine file type" chain
ExtractMedia(msg) ==
    IF msg.document # NoFile THEN [file_id |-> msg.document, file_type |-> "document"]
    ELSE IF msg.video # NoFile THEN [file_id |-> msg.video, file_type |-> "video"]
    ELSE IF msg.photo # <<>>
         THEN [file_id |-> msg.photo[Len(msg.photo)], file_type |-> "photo"]
    ELSE NoUpload

\* the send operation start uses for a stored type
SendOp(file_type) ==
    IF file_type = "video" THEN "reply_video"
    ELSE IF file_type = "photo" THEN "reply_photo"
    ELSE "reply_document"

\* the log entry of an awaited find_one: how it ended is in text ("found" when
\* it returned a document, "none" when it returned None, "raise")
FindOneCall(user, code, found) ==
    Call("find_one", user, code, NoFile,
         IF found.raised THEN "raise" ELSE IF found.doc = <<>> THEN "none" ELSE "found",
         <<>>, ~found.raised)

\* the call log grows by one entry; inside the collision loop a repeated
\* find_one of the same code is kept once, so the log stays finite
Logged(log, entry) ==
    IF \E i \in DOMAIN log : log[i] = entry THEN log ELSE Append(log, entry)

\* ------------------------------------------------------------------ do_POST

InternalServerError == [status |-> 500, text |-> "Internal Server Error"]

Ok == [status |-> 200, text |-> "OK"]

\* control moves to label; at "done" the handler has returned (or its exception
\* was printed by process_update), app.shutdown() has run and do_POST writes
\* 200 "OK"
Goto(p, label) ==
    /\ pc' = [pc EXCEPT ![p] = label]
    /\ response' = IF label = "done" THEN [response EXCEPT ![p] = Ok] ELSE response

\* do_POST reads the body and json.loads it; process_update then builds and
\* initializes the Application, de_jsons the update and dispatches it.
\* Invocations are numbered in the order they arrive.
DoPost(p, b, built) ==
    /\ pc[p] = "idle"
    /\ (p > 1 => pc[p - 1] # "idle")
    /\ update' = [update EXCEPT ![p] =
                     IF b.shape = "update" /\ built THEN b ELSE NoUpdate(b.shape)]
    /\ IF b.shape = "malformed"
       THEN \* json.loads raised: do_POST's except
            /\ error' = [error EXCEPT ![p] = @ \cup {"json"}]
            /\ response' = [response EXCEPT ![p] = InternalServerError]
            /\ pc' = [pc EXCEPT ![p] = "done"]
       ELSE IF ~built
       THEN \* build() or initialize() raised: outside the try, so it leaves
            \* process_update and asyncio.run, into do_POST's except
            /\ error' = [error EXCEPT ![p] = @ \cup {"pipeline"}]
            /\ response' = [response EXCEPT ![p] = InternalServerError]
            /\ pc' = [pc EXCEPT ![p] = "done"]
       ELSE IF b.shape = "json"
       THEN \* Update.de_json raised inside the try: printed, then finally
            /\ error' = [error EXCEPT ![p] = @ \cup {"update"}]
            /\ Goto(p, "done")
       ELSE /\ Goto(p, Route(b))
            /\ UNCHANGED error
    /\ UNCHANGED <<CHANNEL_ID, collection, short_code, upload, file_doc, calls,
                   denied_view>>

\* ------------------------------------------------------------------ start

\* the codes of the documents in the collection
CodesIn(coll) == {coll[i].code : i \in DOMAIN coll}

\* a denial whose text tells whether the code exists
AccessDeniedLeaky(user, start_param) ==
    ReplyText(user,
              IF start_param \in CodesIn(collection) THEN "access_denied"
              ELSE "file_not_found",
              DeepLink(start_param))

\* the "Access Denied" reply: the text, with the deep link of the "Try Again"
\* button (the "Join Channel" button depends on CHANNEL_ID alone)
AccessDenied(user, start_param) ==
    ReplyText(user, "access_denied", DeepLink(start_param))

\* start with a session: a requester some other invocation has seen subscribed
\* is let through without a new membership call
StartWithSession(p, outcome) ==
    /\ pc[p] = "start"
    /\ outcome \in GetChatMember(update[p].user)
    /\ LET user == update[p].user
           args == update[p].args
           known == \E q \in Procs \ {p} :
                       /\ update[q].user = user
                       /\ \E i \in DOMAIN calls[q] :
                             /\ calls[q][i].op = "get_chat_member"
                             /\ is_user_subscribed(calls[q][i].text)
           asked == IF Gated /\ ~known
                    THEN <<Call("get_chat_member", user, <<>>, NoFile, outcome,
                                <<>>, outcome # "raise")>>
                    ELSE <<>>
           start_param == IF args # <<>> THEN args[1] ELSE <<>>
       IN  IF Gated /\ ~known /\ ~is_user_subscribed(outcome)
           THEN /\ calls' = [calls EXCEPT ![p] =
                       @ \o asked \o <<AccessDenied(user, start_param)>>]
                /\ denied_view' = [denied_view EXCEPT ![p] =
                       IF start_param \in CodesIn(collection) THEN "present"
                       ELSE "absent"]
                /\ Goto(p, "done")
                /\ UNCHANGED short_code
           ELSE IF NoArgs(args)
           THEN /\ calls' = [calls EXCEPT ![p] =
                       @ \o asked \o <<ReplyText(user, "welcome", <<>>)>>]
                /\ Goto(p, "done")
                /\ UNCHANGED <<short_code, denied_view>>
           ELSE /\ calls' = [calls EXCEPT ![p] = @ \o asked]
                /\ short_code' = [short_code EXCEPT ![p] = start_param]
                /\ Goto(p, "find_one")
                /\ UNCHANGED denied_view
    /\ UNCHANGED <<CHANNEL_ID, collection, update, upload, file_doc, error>>

\* start, from its entry to the await of find_one: the force-subscribe check,
\* the denial reply, the welcome reply
Start(p, outcome) ==
    /\ pc[p] = "start"
    /\ outcome \in GetChatMember(update[p].user)
    /\ LET user == update[p].user
           args == update[p].args
           asked == IF Gated
                    THEN <<Call("get_chat_member", user, <<>>, NoFile, outcome,
                                <<>>, outcome # "raise")>>
                    ELSE <<>>
           start_param == IF args # <<>> THEN args[1] ELSE <<>>
       IN  IF Gated /\ ~is_user_subscribed(outcome)
           THEN /\ calls' = [calls EXCEPT ![p] =
                       @ \o asked \o <<AccessDenied(user, start_param)>>]
                /\ denied_view' = [denied_view EXCEPT ![p] =
                       IF start_param \in CodesIn(collection) THEN "present"
                       ELSE "absent"]
                /\ Goto(p, "done")
                /\ UNCHANGED short_code
           ELSE IF NoArgs(args)
           THEN /\ calls' = [calls EXCEPT ![p] =
                       @ \o asked \o <<ReplyText(user, "welcome", <<>>)>>]
                /\ Goto(p, "done")
                /\ UNCHANGED <<short_code, denied_view>>
           ELSE /\ calls' = [calls EXCEPT ![p] = @ \o asked]
                /\ short_code' = [short_code EXCEPT ![p] = start_param]
                /\ Goto(p, "find_one")
                /\ UNCHANGED denied_view
    /\ UNCHANGED <<CHANNEL_ID, collection, update, upload, file_doc, error>>

\* start: file_doc = await collection.find_one(...), and the not-found reply
StartFindOne(p, found) ==
    /\ pc[p] = "find_one"
    /\ found \in FindOneOutcomes(short_code[p])
    /\ LET user == update[p].user
           asked == FindOneCall(user, short_code[p], found)
       IN  IF found.raised
           THEN \* the driver error leaves start; the dispatcher prints it
                /\ calls' = [calls EXCEPT ![p] = Append(@, asked)]
                /\ error' = [error EXCEPT ![p] = @ \cup {"handler"}]
                /\ Goto(p, "done")
                /\ UNCHANGED file_doc
           ELSE IF found.doc = <<>>
           THEN /\ calls' = [calls EXCEPT ![p] =
                       @ \o <<asked, ReplyText(user, "file_not_found", <<>>)>>]
                /\ Goto(p, "done")
                /\ UNCHANGED <<file_doc, error>>
           ELSE /\ calls' = [calls EXCEPT ![p] = Append(@, asked)]
                /\ file_doc' = [file_doc EXCEPT ![p] = found.doc]
                /\ Goto(p, "send")
                /\ UNCHANGED error
    /\ UNCHANGED <<CHANNEL_ID, collection, update, short_code, upload, denied_view>>

\* the send without its try/except: a failed send leaves start as an exception
SendFileUnguarded(p, sent) ==
    /\ pc[p] = "send"
    /\ LET user == update[p].user
           doc == file_doc[p][1]
           media == Call(SendOp(doc.type), user, short_code[p], doc.file_id,
                         "here_is_your_file", <<>>, sent)
       IN  calls' = [calls EXCEPT ![p] = Append(@, media)]
    /\ error' = [error EXCEPT ![p] = IF sent THEN @ ELSE @ \cup {"handler"}]
    /\ Goto(p, "done")
    /\ UNCHANGED <<CHANNEL_ID, update, short_code, upload, file_doc, denied_view>>

\* start: send the file with the operation of its type; a failed send is
\* answered with the "failed to send" text
SendFile(p, sent) ==
    /\ pc[p] = "send"
    /\ LET user == update[p].user
           doc == file_doc[p][1]
           media == Call(SendOp(doc.type), user, short_code[p], doc.file_id,
                         "here_is_your_file", <<>>, sent)
       IN  calls' = [calls EXCEPT ![p] =
                       IF sent THEN Append(@, media)
                       ELSE @ \o <<media, ReplyText(user, "failed_to_send", <<>>)>>]
    /\ Goto(p, "done")
    /\ UNCHANGED <<CHANNEL_ID, update, short_code, upload, file_doc, error,
                   denied_view>>

\* a one-time link: the document is deleted once it has been sent
StartSendAndDelete(p, sent) ==
    /\ SendFile(p, sent)
    /\ collection' = SelectSeq(collection, LAMBDA r : r.code # short_code[p])

\* start, step 4: the registry is not touched
StartSend(p, sent) ==
    /\ SendFile(p, sent)
    /\ UNCHANGED collection

\* ------------------------------------------------------------------ admin_upload

\* the message once admin_upload has run its extraction chain: the attachments
\* are in file_id and file_type, and only the sender is read from here on
Consumed(msg) ==
    IF IsAdmin(msg.user) /\ ExtractMedia(msg).file_id # NoFile
    THEN [msg EXCEPT !.document = NoFile, !.video = NoFile, !.photo = <<>>]
    ELSE msg

\* admin_upload, from its entry to the first generate_short_code()
AdminUpload(p, code) ==
    /\ pc[p] = "admin_upload"
    /\ code \in generate_short_code
    /\ LET user_id == update[p].user
           media == ExtractMedia(update[p])
       IN  IF ~IsAdmin(user_id)
           THEN /\ Goto(p, "done")
                /\ UNCHANGED <<short_code, upload, calls>>
           ELSE IF media.file_id = NoFile
           THEN /\ calls' = [calls EXCEPT ![p] =
                       Append(@, ReplyText(user_id, "send_valid_media", <<>>))]
                /\ Goto(p, "done")
                /\ UNCHANGED <<short_code, upload>>
           ELSE /\ upload' = [upload EXCEPT ![p] = media]
                /\ short_code' = [short_code EXCEPT ![p] = code]
                /\ Goto(p, "collision_check")
                /\ UNCHANGED calls
    /\ update' = [update EXCEPT ![p] = Consumed(@)]
    /\ UNCHANGED <<CHANNEL_ID, collection, file_doc, error, denied_view>>

\* "if" in place of "while": a code that is found is replaced by a fresh draw,
\* which is inserted without being checked
CollisionCheckOnce(p, found, code) ==
    /\ pc[p] = "collision_check"
    /\ found \in FindOneOutcomes(short_code[p])
    /\ code \in generate_short_code
    /\ calls' = [calls EXCEPT ![p] =
                   Logged(@, FindOneCall(update[p].user, short_code[p], found))]
    /\ IF found.raised
       THEN /\ error' = [error EXCEPT ![p] = @ \cup {"handler"}]
            /\ Goto(p, "done")
            /\ UNCHANGED short_code
       ELSE /\ short_code' = [short_code EXCEPT ![p] =
                                IF found.doc # <<>> THEN code ELSE @]
            /\ Goto(p, "insert_one")
            /\ UNCHANGED error
    /\ UNCHANGED <<CHANNEL_ID, collection, update, upload, file_doc, denied_view>>

\* one evaluation of the loop condition "while await collection.find_one(...)",
\* with the loop body when it is true
CollisionCheck(p, found, code) ==
    /\ pc[p] = "collision_check"
    /\ found \in FindOneOutcomes(short_code[p])
    /\ code \in generate_short_code
    /\ calls' = [calls EXCEPT ![p] =
                   Logged(@, FindOneCall(update[p].user, short_code[p], found))]
    /\ IF found.raised
       THEN /\ error' = [error EXCEPT ![p] = @ \cup {"handler"}]
            /\ Goto(p, "done")
            /\ UNCHANGED short_code
       ELSE IF found.doc # <<>>
       THEN /\ short_code' = [short_code EXCEPT ![p] = code]
            /\ UNCHANGED <<pc, error, response>>
       ELSE /\ Goto(p, "insert_one")
            /\ UNCHANGED <<short_code, error>>
    /\ UNCHANGED <<CHANNEL_ID, collection, update, upload, file_doc, denied_view>>

\* the document admin_upload saves (created_at, the message date, is left out)
NewRecord(p) ==
    [code |-> short_code[p], file_id |-> upload[p].file_id,
     type |-> upload[p].file_type, uploader |-> update[p].user]

\* admin_upload: insert_one, then the reply with the link
InsertOne(p, written) ==
    /\ pc[p] = "insert_one"
    /\ LET user_id == update[p].user
           asked == Call("insert_one", user_id, short_code[p], upload[p].file_id,
                         upload[p].file_type, <<>>, written)
       IN  IF written
           THEN /\ collection' = Append(collection, NewRecord(p))
                /\ calls' = [calls EXCEPT ![p] =
                       @ \o <<asked, ReplyText(user_id, "file_saved",
                                               DeepLink(short_code[p]))>>]
                /\ UNCHANGED error
           ELSE /\ calls' = [calls EXCEPT ![p] = Append(@, asked)]
                /\ error' = [error EXCEPT ![p] = @ \cup {"handler"}]
                /\ UNCHANGED collection
    /\ Goto(p, "done")
    /\ UNCHANGED <<CHANNEL_ID, update, short_code, upload, file_doc, denied_view>>

\* ------------------------------------------------------------------ specification

Next ==
    \/ \E p \in Procs, b \in Bodies, built \in BOOLEAN : DoPost(p, b, built)
    \/ \E p \in Procs, outcome \in Statuses \cup {"raise"} : Start(p, outcome)
    \/ \E p \in Procs : \E found \in FindOneOutcomes(short_code[p]) :
          StartFindOne(p, found)
    \/ \E p \in Procs, sent \in BOOLEAN : StartSend(p, sent)
    \/ \E p \in Procs, code \in generate_short_code : AdminUpload(p, code)
    \/ \E p \in Procs, code \in generate_short_code :
          \E found \in FindOneOutcomes(short_code[p]) :
             CollisionCheck(p, found, code)
    \/ \E p \in Procs, written \in BOOLEAN : InsertOne(p, written)

Spec == Init /\ [][Next]_vars

\* the steps of a dispatched invocation: asyncio.run drives the handler's
\* coroutine until it returns or raises
Runs(p) ==
    \/ \E outcome \in Statuses \cup {"raise"} : Start(p, outcome)
    \/ \E found \in FindOneOutcomes(short_code[p]) : StartFindOne(p, found)
    \/ \E sent \in BOOLEAN : StartSend(p, sent)
    \/ \E code \in generate_short_code : AdminUpload(p, code)
    \/ \E code \in generate_short_code :
          \E found \in FindOneOutcomes(short_code[p]) : CollisionCheck(p, found, code)
    \/ \E written \in BOOLEAN : InsertOne(p, written)

\* the loop body "short_code = generate_short_code()" draws the given code
Draws(p, code) ==
    \E found \in FindOneOutcomes(short_code[p]) :
        CollisionCheck(p, found, code) /\ short_code'[p] = code

\* asyncio.run(process_update(...)) runs a dispatched invocation to its end
KeepsRunning == \A p \in Procs : WF_vars(Runs(p))

\* random.choices leaves no code undrawn forever in a loop that keeps drawing
FairChoice ==
    \A p \in Procs : \A code \in generate_short_code : WF_vars(Draws(p, code))

Fairness == KeepsRunning /\ FairChoice

\* uploads of one attachment, a document or a photo: messages the dispatcher
\* hands to admin_upload
Uploads ==
    {b \in MediaMessages :
        /\ admin_media_filter(b)
        /\ b.video = NoFile
        /\ (b.document = NoFile) # (b.photo = <<>>)}

\* the bot when only uploads arrive: start never writes the collection, so
\* /start invocations change nothing an upload reads
UploadNext ==
    \/ \E p \in Procs, b \in Uploads, built \in BOOLEAN : DoPost(p, b, built)
    \/ \E p \in Procs, code \in generate_short_code : AdminUpload(p, code)
    \/ \E p \in Procs, code \in generate_short_code :
          \E found \in FindOneOutcomes(short_code[p]) :
             CollisionCheck(p, found, code)
    \/ \E p \in Procs, written \in BOOLEAN : InsertOne(p, written)

UploadSpec == Init /\ [][UploadNext]_vars /\ Fairness

\* ------------------------------------------------------------------ vocabulary of the properties

IsStart(p) == update[p].shape = "update" /\ update[p].command

IsMedia(p) == update[p].shape = "update" /\ ~update[p].command

\* what the invocation sent to the chat: text replies and media, in order
Outbound(p) ==
    SelectSeq(calls[p], LAMBDA c : c.op \notin {"get_chat_member", "find_one", "insert_one"})

Replies(p) == SelectSeq(calls[p], LAMBDA c : c.op = "reply_text")

MediaSends(p) ==
    SelectSeq(calls[p], LAMBDA c : c.op \in {"reply_document", "reply_video", "reply_photo"})

\* positions in the call log of the calls of one operation
Made(p, op) == {i \in DOMAIN calls[p] : calls[p][i].op = op}

\* the start argument of a /start, "" when it has none
StartParam(p) == IF update[p].args = <<>> THEN <<>> ELSE update[p].args[1]

VerifierRaised(p) ==
    \E i \in Made(p, "get_chat_member") : ~calls[p][i].ok

\* the verifier said "not subscribed": status left or kicked, or the call raised
NotSubscribed(p) ==
    \E i \in Made(p, "get_chat_member") : calls[p][i].text \in {"left", "kicked", "raise"}

\* the requester passed the gate, or there is none
PassedGate(p) ==
    \/ CHANNEL_ID = ""
    \/ \E i \in Made(p, "get_chat_member") : calls[p][i].text \notin {"left", "kicked", "raise"}

\* the registry lookup of the invocation returned (it did not raise)
LookupReturned(p) == \E i \in Made(p, "find_one") : calls[p][i].ok

\* ------------------------------------------------------------------ C1

\* C1: whatever uploads run, and however their find_one and insert_one steps
\* interleave, no two documents of the collection have the same code.
UniqueCodes ==
    \A i, j \in DOMAIN collection :
        collection[i].code = collection[j].code => i = j

\* ------------------------------------------------------------------ C2

\* C2: with a channel gate configured, a /start whose membership call raised is
\* denied: exactly the access-denied reply (carrying the deep link of its own
\* argument), no media, no not-found, no welcome, no registry lookup, and the
\* error goes nowhere (no exception recorded, HTTP 200).
FailClosed ==
    \A p \in Procs :
        (CHANNEL_ID # "" /\ IsStart(p) /\ VerifierRaised(p)) =>
            /\ pc[p] = "done"
            /\ Outbound(p) =
                 <<ReplyText(update[p].user, "access_denied", DeepLink(StartParam(p)))>>
            /\ Made(p, "find_one") = {}
            /\ error[p] = {}
            /\ response[p] = Ok

\* a /start for a code that is in the registry, denied because the call raised
FailClosedWitness ==
    \E p \in Procs :
        /\ CHANNEL_ID # "" /\ IsStart(p) /\ VerifierRaised(p)
        /\ StartParam(p) \in CodesIn(collection)
        /\ pc[p] = "done"

\* ------------------------------------------------------------------ C3

\* C3: with no channel gate configured no invocation calls get_chat_member and
\* none replies access-denied.
GateOffNeverDenies ==
    CHANNEL_ID = "" =>
        \A p \in Procs :
            /\ Made(p, "get_chat_member") = {}
            /\ \A i \in DOMAIN calls[p] : calls[p][i].text # "access_denied"

\* gate off, and two /start invocations have ended: one in a delivery, one in
\* the not-found reply
GateOffWitness ==
    /\ CHANNEL_ID = ""
    /\ \E p \in Procs : IsStart(p) /\ pc[p] = "done" /\ MediaSends(p) # <<>>
    /\ \E p \in Procs :
          /\ IsStart(p) /\ pc[p] = "done"
          /\ \E i \in DOMAIN calls[p] : calls[p][i].text = "file_not_found"

\* ------------------------------------------------------------------ C4

\* an upload that has completed: it inserted its document and replied with the
\* link of its code
Issued(p) ==
    /\ IsMedia(p) /\ pc[p] = "done"
    /\ \E i \in DOMAIN calls[p] :
          calls[p][i].text = "file_saved" /\ calls[p][i].link = DeepLink(short_code[p])

\* C4: once an upload of reference R and kind K has completed with code c, every
\* later /start lookup of c that returns goes on to deliver exactly (R, K, c),
\* with the send operation of K.
RoundTrip ==
    [][\A p, q \in Procs :
          (/\ Issued(p)
           /\ pc[q] = "find_one" /\ pc'[q] # "find_one"
           /\ short_code[q] = short_code[p]
           /\ "handler" \notin error'[q])
          => /\ pc'[q] = "send"
             /\ file_doc'[q][1].code = short_code[p]
             /\ file_doc'[q][1].file_id = upload[p].file_id
             /\ file_doc'[q][1].type = upload[p].file_type
             /\ SendOp(file_doc'[q][1].type) = SendOp(upload[p].file_type)]_vars

\* ------------------------------------------------------------------ C5

\* C5: a media message of a sender other than the administrator makes no call at
\* all (no registry read or write, no reply), whatever it carries, and no
\* document of the collection names that sender.
NonAdminUploadIgnored ==
    \A p \in Procs :
        (IsMedia(p) /\ update[p].user # ADMIN_ID) =>
            /\ calls[p] = <<>>
            /\ upload[p] = NoUpload
            /\ \A i \in DOMAIN collection : collection[i].uploader # update[p].user

\* a non-administrator sent a document, a video and a photo in one message, and
\* the invocation is over
NonAdminUploadWitness ==
    \E p \in Procs :
        /\ IsMedia(p) /\ update[p].user # ADMIN_ID
        /\ update[p].document # NoFile /\ update[p].video # NoFile
        /\ update[p].photo # <<>>
        /\ pc[p] = "done" /\ response[p] = Ok

\* ------------------------------------------------------------------ C6

\* C6: a /start the verifier reports as not subscribed makes no registry lookup,
\* and any two such invocations of the same requester with the same argument
\* send the same things, whatever the registry held when each was denied.
DenialIndependentOfRegistry ==
    \A p \in Procs :
        (IsStart(p) /\ NotSubscribed(p)) =>
            /\ Made(p, "find_one") = {}
            /\ \A q \in Procs :
                  (/\ IsStart(q) /\ NotSubscribed(q)
                   /\ update[q].user = update[p].user
                   /\ update[q].args = update[p].args)
                  => Outbound(q) = Outbound(p)

\* the same requester was denied the same code twice: once while the code was
\* not in the registry, once while it was
DenialWitness ==
    \E p, q \in Procs :
        /\ IsStart(p) /\ NotSubscribed(p) /\ IsStart(q) /\ NotSubscribed(q)
        /\ update[q].user = update[p].user
        /\ update[q].args = update[p].args /\ update[p].args # <<>>
        /\ denied_view[p] = "absent" /\ denied_view[q] = "present"

\* ------------------------------------------------------------------ C7

\* C7: a finished invocation answered 200 "OK" if its body was valid JSON and
\* 500 only if it was not.
AcknowledgesValidJson ==
    \A p \in Procs :
        pc[p] = "done" =>
            /\ update[p].shape # "malformed" => response[p] = Ok
            /\ response[p].status = 500 => update[p].shape = "malformed"

\* ------------------------------------------------------------------ C8

\* C8: a /start with an argument that passed the gate (or met none), whose
\* lookup returned while the code was not in the registry, sent exactly the
\* not-found reply: no media, no exception, HTTP 200.
UnknownCodeNotFound ==
    \A p \in Procs :
        (/\ IsStart(p) /\ pc[p] = "done" /\ PassedGate(p)
         /\ update[p].args # <<>>
         /\ LookupReturned(p)
         /\ StartParam(p) \notin CodesIn(collection))
        => /\ Outbound(p) = <<ReplyText(update[p].user, "file_not_found", <<>>)>>
           /\ Cardinality(Made(p, "find_one")) = 1
           /\ error[p] = {}
           /\ response[p] = Ok

\* a not-found retrieval of one code while the registry holds another
UnknownCodeWitness ==
    \E p \in Procs :
        /\ IsStart(p) /\ pc[p] = "done" /\ PassedGate(p)
        /\ update[p].args # <<>>
        /\ LookupReturned(p)
        /\ StartParam(p) \notin CodesIn(collection)
        /\ collection # <<>>

\* ------------------------------------------------------------------ C9

\* C9: a /start without argument that passed the gate (or met none) sent exactly
\* the welcome reply and made no registry call.
BareStartWelcomes ==
    \A p \in Procs :
        (IsStart(p) /\ update[p].args = <<>> /\ pc[p] = "done" /\ PassedGate(p)) =>
            /\ Outbound(p) = <<ReplyText(update[p].user, "welcome", <<>>)>>
            /\ Made(p, "find_one") = {}
            /\ Made(p, "insert_one") = {}
            /\ error[p] = {}

\* a bare /start was welcomed behind a configured gate, the registry not empty
BareStartWitness ==
    \E p \in Procs :
        /\ IsStart(p) /\ update[p].args = <<>> /\ pc[p] = "done"
        /\ CHANNEL_ID # "" /\ PassedGate(p)
        /\ collection # <<>>

\* ------------------------------------------------------------------ C10

\* C10: no step of a /start invocation, from its dispatch to its end, changes
\* the collection.
StartNeverWrites ==
    [][\A p \in Procs :
          (/\ pc'[p] # pc[p]
           /\ update'[p].shape = "update" /\ update'[p].command)
          => collection' = collection]_vars

\* two /start invocations have ended, one with a delivery and one with a failed
\* delivery, next to a registry that holds documents
StartOutcomesWitness ==
    /\ collection # <<>>
    /\ \E p \in Procs :
          /\ IsStart(p) /\ pc[p] = "done"
          /\ \E i \in DOMAIN calls[p] : calls[p][i].text = "failed_to_send"
    /\ \E p \in Procs :
          /\ IsStart(p) /\ pc[p] = "done"
          /\ MediaSends(p) # <<>> /\ Replies(p) = <<>>

\* ------------------------------------------------------------------ C11

\* C11: every document of the collection names the administrator as its
\* uploader, and every insert_one ever made was made by an invocation whose
\* sender is the administrator.
OnlyAdminRecords ==
    /\ \A i \in DOMAIN collection : collection[i].uploader = ADMIN_ID
    /\ \A p \in Procs : Made(p, "insert_one") # {} => update[p].user = ADMIN_ID

\* media messages of the administrator and of somebody else have both ended,
\* and the collection holds a document
OnlyAdminRecordsWitness ==
    /\ collection # <<>>
    /\ \E p \in Procs :
          IsMedia(p) /\ update[p].user # ADMIN_ID /\ pc[p] = "done" /\ response[p] = Ok
    /\ \E p \in Procs :
          IsMedia(p) /\ update[p].user = ADMIN_ID /\ pc[p] = "done"
          /\ Made(p, "insert_one") # {}

\* ------------------------------------------------------------------ C12

\* every code generate_short_code can return is the code of a document
Exhausted == CodesIn(collection) = generate_short_code

\* C12: an upload that has entered the generate-and-check loop reaches its end,
\* also when every code of the code space is in the collection.
UploadTerminates ==
    \A p \in Procs : (pc[p] = "collision_check") ~> (pc[p] = "done")

\* ------------------------------------------------------------------ C13

\* every registry call the invocation made returned
RegistryAnswered(p) ==
    \A i \in Made(p, "find_one") \cup Made(p, "insert_one") : calls[p][i].ok

\* the upload is past its loop: the last find_one it made was of the code it now
\* holds and returned None, and no find_one of that code returned a document
LeftLoopWithAbsentCode(p, last) ==
    /\ last \in Made(p, "find_one")
    /\ calls[p][last].code = short_code[p] /\ calls[p][last].text = "none"
    /\ \A i \in Made(p, "find_one") : i <= last
    /\ \A i \in Made(p, "find_one") :
          calls[p][i].text = "found" => calls[p][i].code # short_code[p]

\* the upload has ended: after its loop it made one insert_one, of its code and
\* file, the document is in the collection, and its one reply carries the link
\* of that code
InsertedOnceAndReplied(p) ==
    LET n == Len(calls[p])
    IN  /\ n >= 3
        /\ LeftLoopWithAbsentCode(p, n - 2)
        /\ Made(p, "insert_one") = {n - 1}
        /\ calls[p][n - 1].code = short_code[p]
        /\ calls[p][n - 1].file = upload[p].file_id
        /\ \E j \in DOMAIN collection :
              /\ collection[j].code = short_code[p]
              /\ collection[j].file_id = upload[p].file_id
              /\ collection[j].type = upload[p].file_type
        /\ Outbound(p) =
             <<ReplyText(update[p].user, "file_saved", DeepLink(short_code[p]))>>

\* C13: an upload whose registry calls return, and that is in the loop while a
\* code is free, comes to its end having inserted and replied with the link;
\* it leaves the loop only with a code that its last find_one did not find and
\* that none of its find_one calls found, inserts once, with that code, and
\* replies with the link of that code.
UploadCompletes ==
    /\ [](\A p \in Procs :
            (IsMedia(p) /\ RegistryAnswered(p)) =>
                /\ pc[p] = "insert_one" => LeftLoopWithAbsentCode(p, Len(calls[p]))
                /\ (pc[p] = "done" /\ Made(p, "find_one") # {}) =>
                      InsertedOnceAndReplied(p))
    /\ \A p \in Procs :
          (pc[p] = "collision_check") ~>
              (Issued(p) \/ Exhausted \/ ~RegistryAnswered(p))

\* an upload has ended with its document inserted after it had drawn, found and
\* discarded a code
UploadCompletesWitness ==
    \E p \in Procs :
        /\ IsMedia(p) /\ RegistryAnswered(p) /\ pc[p] = "done"
        /\ Issued(p)
        /\ \E i \in Made(p, "find_one") : calls[p][i].text = "found"

\* ------------------------------------------------------------------ C14

\* C14: with a channel gate configured, every /start invocation that is past
\* its first step made its own get_chat_member call for its requester, as its
\* first call; it looks up the registry or sends media only if that call
\* reported a subscribed status, and is denied when the call reported "left",
\* "kicked" or raised, whatever other invocations of the requester were told.
GateCheckedEachTime ==
    CHANNEL_ID # "" =>
        \A p \in Procs :
            (IsStart(p) /\ pc[p] # "start") =>
                /\ Made(p, "get_chat_member") = {1}
                /\ calls[p][1].user = update[p].user
                /\ (\/ pc[p] \in {"find_one", "send"}
                    \/ Made(p, "find_one") # {}
                    \/ MediaSends(p) # <<>>)
                   => /\ calls[p][1].ok
                      /\ calls[p][1].text \notin {"left", "kicked"}
                /\ NotSubscribed(p) =>
                      /\ pc[p] = "done"
                      /\ Outbound(p) = <<ReplyText(update[p].user, "access_denied",
                                                   DeepLink(StartParam(p)))>>

\* a requester was sent the file of a code in one invocation and, in an
\* invocation that arrived later, was denied the same code as having left
LeftSinceWitness ==
    \E p, q \in Procs :
        /\ p < q /\ CHANNEL_ID # ""
        /\ IsStart(p) /\ IsStart(q)
        /\ update[q].user = update[p].user /\ update[q].args = update[p].args
        /\ pc[p] = "done" /\ MediaSends(p) # <<>> /\ calls[p][Len(calls[p])].ok
        /\ pc[q] = "done" /\ calls[q][1].text = "left"

\* ------------------------------------------------------------------ C15

\* the invocation sent the access-denied reply
Denied(p) == \E i \in DOMAIN calls[p] : calls[p][i].text = "access_denied"

\* C15: is_user_subscribed is false for the statuses "left" and "kicked" and
\* true for every other status, and a gated /start whose membership call
\* returned is denied exactly when the status it returned is one of those two;
\* otherwise it goes on to the welcome or to the lookup.
DeniedExactlyLeftKicked ==
    /\ \A status \in ChatMemberStatus :
          is_user_subscribed(status) <=> status \notin {"left", "kicked"}
    /\ \A p \in Procs :
          (CHANNEL_ID # "" /\ IsStart(p)) =>
              \A i \in Made(p, "get_chat_member") :
                  calls[p][i].ok =>
                      /\ calls[p][i].text \in ChatMemberStatus
                      /\ Denied(p) <=> calls[p][i].text \in {"left", "kicked"}
                      /\ ~Denied(p) =>
                            \/ pc[p] = "find_one"
                            \/ Made(p, "find_one") # {}
                            \/ Outbound(p) = <<ReplyText(update[p].user, "welcome", <<>>)>>

\* behind the gate one /start was answered "kicked" and denied, and another was
\* answered "member" and sent the file
DeniedExactlyWitness ==
    /\ CHANNEL_ID # ""
    /\ \E p \in Procs :
          /\ IsStart(p) /\ pc[p] = "done" /\ Denied(p)
          /\ calls[p][1].op = "get_chat_member" /\ calls[p][1].text = "kicked"
    /\ \E p \in Procs :
          /\ IsStart(p) /\ pc[p] = "done" /\ MediaSends(p) # <<>>
          /\ calls[p][1].op = "get_chat_member" /\ calls[p][1].text = "member"

\* ------------------------------------------------------------------ C16

Priority == <<"document", "video", "photo">>

\* the reference a message carries for a kind, NoFile when it carries none; for
\* a photo, the last entry of the size-ordered sequence
Attachment(msg, kind) ==
    IF kind = "document" THEN msg.document
    ELSE IF kind = "video" THEN msg.video
    ELSE IF msg.photo = <<>> THEN NoFile
    ELSE msg.photo[Len(msg.photo)]

\* C16: when admin_upload extracts the media of a message, its file_type is the
\* first kind, in the order document, video, photo, that the message carries
\* and its file_id the reference of that kind (for a photo the last entry of
\* the sequence); these stay as they are until insert_one, and the document
\* insert_one appends has that file_id and type.
RecordStoresFirstAttachment ==
    [][\A p \in Procs :
          /\ (pc[p] = "admin_upload" /\ pc'[p] \in {"collision_check", "insert_one"}) =>
                \E k \in DOMAIN Priority :
                    /\ Attachment(update[p], Priority[k]) # NoFile
                    /\ \A j \in 1 .. k - 1 : Attachment(update[p], Priority[j]) = NoFile
                    /\ upload'[p].file_type = Priority[k]
                    /\ upload'[p].file_id = Attachment(update[p], Priority[k])
          /\ pc[p] \in {"collision_check", "insert_one"} => upload'[p] = upload[p]
          /\ (pc[p] = "insert_one" /\ pc'[p] = "done" /\ collection' # collection) =>
                /\ Len(collection') = Len(collection) + 1
                /\ SubSeq(collection', 1, Len(collection)) = collection
                /\ collection'[Len(collection')].file_id = upload[p].file_id
                /\ collection'[Len(collection')].type = upload[p].file_type]_vars

\* uploads have inserted a document, a video and a photo, the photo with the
\* reference of the last entry of its sequence
EveryKindStoredWitness ==
    /\ \E i \in DOMAIN collection :
          collection[i].type = "document" /\ collection[i].file_id = "doc_1"
    /\ \E i \in DOMAIN collection :
          collection[i].type = "video" /\ collection[i].file_id = "vid_1"
    /\ \E i \in DOMAIN collection :
          collection[i].type = "photo" /\ collection[i].file_id = "photo_large"

\* ------------------------------------------------------------------ C17

\* a non-command message that carried no document, no video and no photo (a
\* message whose media admin_upload extracted has them in upload)
CarriedNoMedia(p) ==
    /\ IsMedia(p)
    /\ update[p].document = NoFile /\ update[p].video = NoFile /\ update[p].photo = <<>>
    /\ upload[p] = NoUpload

\* C17: a finished invocation for a non-command message of the administrator
\* that carried no document, video or photo sent exactly the "Please send a
\* Document, Video, or Photo." reply and made no insert_one.
PromptsForValidMedia ==
    \A p \in Procs :
        (CarriedNoMedia(p) /\ update[p].user = ADMIN_ID /\ pc[p] = "done") =>
            /\ Outbound(p) = <<ReplyText(ADMIN_ID, "send_valid_media", <<>>)>>
            /\ Made(p, "insert_one") = {}

\* ------------------------------------------------------------------ C18

\* positions in the call log of the send-media calls that failed
FailedSends(p) ==
    {i \in DOMAIN calls[p] :
        /\ calls[p][i].op \in {"reply_document", "reply_video", "reply_photo"}
        /\ ~calls[p][i].ok}

\* C18: a /start whose send-media call failed ends with the "Failed to send
\* file" reply to the requester right after the failed call, with no exception
\* out of the handler and HTTP 200; the step that makes the failed call leaves
\* the collection as it was.
DeliveryFailureReported ==
    /\ [](\A p \in Procs :
            (IsStart(p) /\ FailedSends(p) # {}) =>
                /\ pc[p] = "done"
                /\ FailedSends(p) = {Len(calls[p]) - 1}
                /\ Outbound(p) =
                     <<calls[p][Len(calls[p]) - 1],
                       ReplyText(update[p].user, "failed_to_send", <<>>)>>
                /\ calls[p][Len(calls[p]) - 1].code = StartParam(p)
                /\ error[p] = {}
                /\ response[p] = Ok)
    /\ [][\A p \in Procs :
            (pc[p] = "send" /\ pc'[p] = "done") => collection' = collection]_vars

\* a /start for a code the registry holds has ended after a failed send
DeliveryFailedWitness ==
    \E p \in Procs :
        /\ IsStart(p) /\ pc[p] = "done" /\ FailedSends(p) # {}
        /\ StartParam(p) \in CodesIn(collection)
        /\ LookupReturned(p)

\* ------------------------------------------------------------------ C19

\* C19: a finished /start invocation sent something to its requester, a
\* finished upload of the administrator whose media was extracted sent a reply,
\* and in neither did an exception leave the handler, whatever the registry
\* calls did.
EveryPathReplies ==
    \A p \in Procs :
        (/\ pc[p] = "done"
         /\ \/ IsStart(p)
            \/ IsMedia(p) /\ update[p].user = ADMIN_ID /\ upload[p] # NoUpload)
        => /\ Outbound(p) # <<>>
           /\ "handler" \notin error[p]

====
